---- MODULE Spec2Model ----
(***************************************************************************)
(* A model of the dhttp client (httpclient.go and its helper files): the   *)
(* layered option store, the transport / jar / redirect builders, and the  *)
(* Client with its one-time state, its two caches and its lazily created   *)
(* mutex.  Callers are goroutines that run the public methods; a method    *)
(* that touches shared state in several places is split at those places.   *)
(***************************************************************************)
EXTENDS Integers, Sequences, FiniteSets, TLC

(***************************************************************************)
(* Bounds of the workload.                                                 *)
(***************************************************************************)
MaxCalls == 4       \* calls of the public methods in one sequential run
MaxConcCalls == 2   \* calls of the public methods by each concurrent caller
MaxFairCalls == 3   \* calls of the public methods by each fairly scheduled caller
MaxServed == 3      \* redirects a server issues in answer to one request

(***************************************************************************)
(* The const block of httpclient.go: VERSION is the block's entry 0, so    *)
(* iota is 1 at PROXY_HTTP.                                                *)
(***************************************************************************)
PROXY_HTTP == 1
PROXY_SOCKS4 == 2
PROXY_SOCKS5 == 3
PROXY_SOCKS4A == 4
OPT_AUTOREFERER == 5
OPT_FOLLOWLOCATION == 6
OPT_CONNECTTIMEOUT == 7
OPT_CONNECTTIMEOUT_MS == 8
OPT_MAXREDIRS == 9
OPT_PROXYTYPE == 10
OPT_TIMEOUT == 11
OPT_TIMEOUT_MS == 12
OPT_COOKIEJAR == 13
OPT_INTERFACE == 14
OPT_PROXY == 15
OPT_REFERER == 16
OPT_USERAGENT == 17
OPT_REDIRECT_POLICY == 18
OPT_PROXY_FUNC == 19

OptionKeys == OPT_AUTOREFERER .. OPT_PROXY_FUNC

(***************************************************************************)
(* interface{} values: a dynamic type tag t, a numeric payload n (the int, *)
(* the bool as 0/1, the identity of a jar instance) and a string payload   *)
(* s.  BadHost is a string url.Parse rejects after the "http://" prefix.   *)
(***************************************************************************)
IntV(n) == [t |-> "int", n |-> n, s |-> ""]
BoolV(b) == [t |-> "bool", n |-> IF b THEN 1 ELSE 0, s |-> ""]
StrV(s) == [t |-> "string", n |-> 0, s |-> s]
JarV(j) == [t |-> "jar", n |-> j, s |-> ""]
ProxyFuncV == [t |-> "proxyfunc", n |-> 0, s |-> ""]
RedirectFuncV == [t |-> "redirectfunc", n |-> 0, s |-> ""]

BadHost == "%zz"
urlParseFails(s) == s = BadHost

(***************************************************************************)
(* Go maps: nil or a table.  Ranging over a nil map visits nothing.        *)
(***************************************************************************)
NilMap == [nil |-> TRUE, m |-> <<>>]
MkMap(f) == [nil |-> FALSE, m |-> f]
Put(f, k, v) == [x \in (DOMAIN f) \cup {k} |-> IF x = k THEN v ELSE f[x]]
Has(f, k) == k \in DOMAIN f

defaultOptionsIntJar ==
  MkMap((OPT_FOLLOWLOCATION :> BoolV(TRUE)) @@ (OPT_MAXREDIRS :> IntV(10))
        @@ (OPT_COOKIEJAR :> IntV(1)))

defaultOptions ==
  MkMap((OPT_FOLLOWLOCATION :> BoolV(TRUE)) @@ (OPT_MAXREDIRS :> IntV(10))
        @@ (OPT_AUTOREFERER :> BoolV(TRUE)) @@ (OPT_USERAGENT :> StrV(""))
        @@ (OPT_COOKIEJAR :> BoolV(TRUE)))

transportOptions ==
  << OPT_CONNECTTIMEOUT, OPT_CONNECTTIMEOUT_MS, OPT_PROXYTYPE, OPT_TIMEOUT,
     OPT_TIMEOUT_MS, OPT_INTERFACE, OPT_PROXY, OPT_PROXY_FUNC >>

jarOptions == << OPT_COOKIEJAR >>

InList(opt, options) == \E i \in 1..Len(options) : options[i] = opt

(***************************************************************************)
(* hasOption: the loop returns true at the first entry that differs from   *)
(* opt, and false when it runs off the end of the list.                    *)
(***************************************************************************)
RECURSIVE hasOptionFrom(_, _, _)
hasOptionFrom(opt, options, i) ==
  IF i > Len(options) THEN FALSE
  ELSE IF opt # options[i] THEN TRUE
  ELSE hasOptionFrom(opt, options, i + 1)

hasOption(opt, options) == hasOptionFrom(opt, options, 1)

(***************************************************************************)
(* mergeOptions / mergeHeaders: a fresh map, the layers copied into it in  *)
(* order, so a later layer overwrites an earlier one.                      *)
(***************************************************************************)
overlayLeft(merged, piece) ==
  [k \in (DOMAIN merged) \cup (DOMAIN piece) |->
     IF k \in DOMAIN merged THEN merged[k] ELSE piece[k]]

overlay(merged, piece) ==
  [k \in (DOMAIN merged) \cup (DOMAIN piece) |->
     IF k \in DOMAIN piece THEN piece[k] ELSE merged[k]]

RECURSIVE mergeFrom(_, _, _)
mergeFrom(layers, i, merged) ==
  IF i > Len(layers) THEN merged
  ELSE mergeFrom(layers, i + 1, overlay(merged, layers[i].m))

mergeOptions(layers) == mergeFrom(layers, 1, <<>>)
mergeHeaders(layers) == mergeFrom(layers, 1, <<>>)

(***************************************************************************)
(* prepareTransport.  The result carries the error ("" for none) and what  *)
(* the built http.Transport closes over: the two timeouts used by Dial     *)
(* and the proxy mode.                                                     *)
(***************************************************************************)
NoProxy == [mode |-> "none", host |-> ""]

connectTimeoutOf(o) ==
  IF Has(o, OPT_CONNECTTIMEOUT_MS)
  THEN IF o[OPT_CONNECTTIMEOUT_MS].t = "int"
       THEN [err |-> "", ms |-> o[OPT_CONNECTTIMEOUT_MS].n]
       ELSE [err |-> "OPT_CONNECTTIMEOUT_MS must be int", ms |-> 0]
  ELSE IF Has(o, OPT_CONNECTTIMEOUT)
  THEN IF o[OPT_CONNECTTIMEOUT].t = "int"
       THEN [err |-> "", ms |-> o[OPT_CONNECTTIMEOUT].n * 1000]
       ELSE [err |-> "OPT_CONNECTTIMEOUT must be int", ms |-> 0]
  ELSE [err |-> "", ms |-> 0]

timeoutOf(o) ==
  IF Has(o, OPT_TIMEOUT_MS)
  THEN IF o[OPT_TIMEOUT_MS].t = "int"
       THEN [err |-> "", ms |-> o[OPT_TIMEOUT_MS].n]
       ELSE [err |-> "OPT_TIMEOUT_MS must be int", ms |-> 0]
  ELSE IF Has(o, OPT_TIMEOUT)
  THEN IF o[OPT_TIMEOUT].t = "int"
       THEN [err |-> "", ms |-> o[OPT_TIMEOUT].n * 1000]
       ELSE [err |-> "OPT_TIMEOUT must be int", ms |-> 0]
  ELSE [err |-> "", ms |-> 0]

keepConnectTimeout(connectTimeoutMS, timeoutMS) == connectTimeoutMS

fixConnectTimeout(connectTimeoutMS, timeoutMS) ==
  IF timeoutMS > 0 /\ (connectTimeoutMS > timeoutMS \/ connectTimeoutMS = 0)
  THEN timeoutMS
  ELSE connectTimeoutMS

proxyOf(o) ==
  IF Has(o, OPT_PROXY_FUNC)
  THEN IF o[OPT_PROXY_FUNC].t = "proxyfunc"
       THEN [err |-> "", proxy |-> [mode |-> "func", host |-> ""]]
       ELSE [err |-> "OPT_PROXY_FUNC is not a desired function", proxy |-> NoProxy]
  ELSE IF Has(o, OPT_PROXYTYPE)
          /\ (o[OPT_PROXYTYPE].t # "int" \/ o[OPT_PROXYTYPE].n # PROXY_HTTP)
  THEN [err |-> "OPT_PROXYTYPE must be int, and only PROXY_HTTP is currently supported",
        proxy |-> NoProxy]
  ELSE IF Has(o, OPT_PROXY)
  THEN IF o[OPT_PROXY].t # "string"
       THEN [err |-> "OPT_PROXY must be string", proxy |-> NoProxy]
       ELSE IF urlParseFails(o[OPT_PROXY].s)
       THEN [err |-> "parse proxy url", proxy |-> NoProxy]
       ELSE [err |-> "", proxy |-> [mode |-> "static", host |-> o[OPT_PROXY].s]]
  ELSE [err |-> "", proxy |-> NoProxy]

TransportResult(err, connectTimeoutMS, timeoutMS, proxy) ==
  [err |-> err, connectTimeoutMS |-> connectTimeoutMS, timeoutMS |-> timeoutMS,
   proxy |-> proxy]

prepareTransport(options) ==
  LET ct == connectTimeoutOf(options)
      tm == timeoutOf(options)
      px == proxyOf(options)
  IN  IF ct.err # "" THEN TransportResult(ct.err, 0, 0, NoProxy)
      ELSE IF tm.err # "" THEN TransportResult(tm.err, 0, 0, NoProxy)
      ELSE IF px.err # "" THEN TransportResult(px.err, 0, 0, NoProxy)
      ELSE TransportResult("", fixConnectTimeout(ct.ms, tm.ms), tm.ms, px.proxy)

(***************************************************************************)
(* prepareRedirect: a caller-supplied policy verbatim, else the policy     *)
(* closes over followlocation and maxredirs (zero values when absent).     *)
(***************************************************************************)
RedirectResult(err, custom, followlocation, maxredirs) ==
  [err |-> err, custom |-> custom, followlocation |-> followlocation,
   maxredirs |-> maxredirs]

prepareRedirect(options) ==
  IF Has(options, OPT_REDIRECT_POLICY)
  THEN IF options[OPT_REDIRECT_POLICY].t = "redirectfunc"
       THEN RedirectResult("", TRUE, FALSE, 0)
       ELSE RedirectResult("OPT_REDIRECT_POLICY is not a desired function", FALSE, FALSE, 0)
  ELSE IF Has(options, OPT_FOLLOWLOCATION) /\ options[OPT_FOLLOWLOCATION].t # "bool"
  THEN RedirectResult("OPT_FOLLOWLOCATION must be bool", FALSE, FALSE, 0)
  ELSE IF Has(options, OPT_MAXREDIRS) /\ options[OPT_MAXREDIRS].t # "int"
  THEN RedirectResult("OPT_MAXREDIRS must be int", FALSE, FALSE, 0)
  ELSE RedirectResult("", FALSE,
         Has(options, OPT_FOLLOWLOCATION) /\ options[OPT_FOLLOWLOCATION].n = 1,
         IF Has(options, OPT_MAXREDIRS) THEN options[OPT_MAXREDIRS].n ELSE 0)

(***************************************************************************)
(* The policy prepareRedirect returns, asked about the next hop when nvia  *)
(* requests of the chain were already made: the error it answers, "" to    *)
(* follow.  A policy the caller supplied is taken to allow every hop.      *)
(***************************************************************************)
redirectPolicy(r, nvia) ==
  IF r.custom THEN ""
  ELSE IF ~r.followlocation \/ r.maxredirs <= 0 THEN "redirect not allowed"
  ELSE IF nvia >= r.maxredirs THEN "stopped"
  ELSE ""

(***************************************************************************)
(* http.Client.Do with CheckRedirect set: the server answers each of its   *)
(* first `served` requests with a redirect; before a hop the client asks   *)
(* the policy, giving it the `made` requests already sent (the original    *)
(* one included), and gives up with the policy's error.                    *)
(***************************************************************************)
RECURSIVE followRedirects(_, _, _)
followRedirects(r, served, made) ==
  IF made > served THEN [hops |-> made - 1, err |-> ""]
  ELSE IF redirectPolicy(r, made) # ""
  THEN [hops |-> made - 1, err |-> redirectPolicy(r, made)]
  ELSE followRedirects(r, served, made + 1)

(***************************************************************************)
(* prepareJar: "new" asks for a fresh in-memory jar, "given" is the        *)
(* caller's instance, "nil" is no jar.                                     *)
(***************************************************************************)
NoJar == 0

JarResult(err, kind, given) == [err |-> err, kind |-> kind, given |-> given]

prepareJarAlwaysNew(options) == JarResult("", "new", NoJar)

prepareJar(options) ==
  IF Has(options, OPT_COOKIEJAR)
  THEN IF options[OPT_COOKIEJAR].t = "bool"
       THEN IF options[OPT_COOKIEJAR].n = 1
            THEN JarResult("", "new", NoJar)
            ELSE JarResult("", "nil", NoJar)
       ELSE IF options[OPT_COOKIEJAR].t = "jar"
       THEN JarResult("", "given", options[OPT_COOKIEJAR].n)
       ELSE JarResult("invalid cookiejar", "nil", NoJar)
  ELSE JarResult("", "nil", NoJar)

(***************************************************************************)
(* prepareRequest: http.NewRequest fails on a URL it cannot parse; then    *)
(* Referer and User-Agent are set when the option holds a string, and the  *)
(* merged headers are set over them.                                       *)
(***************************************************************************)
BadURL == << ":bad" >>
newRequestFails(url) == url = BadURL

optionHeaders(options) ==
  LET ref == IF Has(options, OPT_REFERER) /\ options[OPT_REFERER].t = "string"
             THEN "Referer" :> options[OPT_REFERER].s ELSE <<>>
      ua  == IF Has(options, OPT_USERAGENT) /\ options[OPT_USERAGENT].t = "string"
             THEN "User-Agent" :> options[OPT_USERAGENT].s ELSE <<>>
  IN  overlay(ref, ua)

prepareRequest(method, url, headers, options) ==
  IF newRequestFails(url)
  THEN [err |-> "parse url", method |-> method, url |-> url, headers |-> <<>>]
  ELSE [err |-> "", method |-> method, url |-> url,
        headers |-> overlay(optionHeaders(options), headers)]

(***************************************************************************)
(* Helpers of the request methods.  A URL is a sequence of tokens ("?" and *)
(* "&" are tokens of their own); url.Values maps a name, a sequence of     *)
(* characters, to its values.                                              *)
(***************************************************************************)
Contains(url, tok) == \E i \in 1..Len(url) : url[i] = tok
HasSuffix(url, tok) == Len(url) > 0 /\ url[Len(url)] = tok

NilParams == <<>>
PlainParams == << "a" >> :> << "1" >>
FileParams == << "@", "f" >> :> << "/path" >>

Encode(params) ==
  IF params = PlainParams THEN "a=1"
  ELSE IF params = FileParams THEN "%40f=%2Fpath"
  ELSE ""

addQuery(url, params) ==
  IF Cardinality(DOMAIN params) = 0 THEN url
  ELSE LET u1 == IF ~Contains(url, "?") THEN Append(url, "?") ELSE url
           u2 == IF ~HasSuffix(u1, "?") /\ ~HasSuffix(u1, "&")
                 THEN Append(u1, "&") ELSE u1
       IN  Append(u2, Encode(params))

checkParamFile(params) == \E name \in DOMAIN params : name[1] = "@"

(***************************************************************************)
(* The Client struct.  transport is the cached http.RoundTripper (id 0 is  *)
(* nil), jar the identity of the cached http.CookieJar (NoJar is nil),     *)
(* lock the identity of the *sync.Mutex (NoLock is nil).                   *)
(***************************************************************************)
NoLock == "nil"

NilTransport == [id |-> 0, connectTimeoutMS |-> 0, timeoutMS |-> 0, proxy |-> NoProxy]

MkTransport(id, r) ==
  [id |-> id, connectTimeoutMS |-> r.connectTimeoutMS, timeoutMS |-> r.timeoutMS,
   proxy |-> r.proxy]

\* new(Client): every field has its zero value.
zeroClient ==
  [Options |-> NilMap, Headers |-> NilMap,
   oneTimeOptions |-> NilMap, oneTimeHeaders |-> NilMap, oneTimeCookies |-> <<>>,
   transport |-> NilTransport, jar |-> NoJar,
   reuseTransport |-> FALSE, reuseJar |-> FALSE, lock |-> NoLock]

NewClient == [zeroClient EXCEPT !.reuseTransport = TRUE, !.reuseJar = TRUE]

\* The fields reset() assigns before it touches the lock.
resetKeepsCookies(cl) ==
  [cl EXCEPT !.oneTimeOptions = NilMap, !.oneTimeHeaders = NilMap,
             !.reuseTransport = TRUE, !.reuseJar = TRUE]

reset(cl) ==
  [cl EXCEPT !.oneTimeOptions = NilMap, !.oneTimeHeaders = NilMap,
             !.oneTimeCookies = <<>>,
             !.reuseTransport = TRUE, !.reuseJar = TRUE]

withOption(cl, option, value) ==
  LET cur == IF cl.oneTimeOptions.nil THEN <<>> ELSE cl.oneTimeOptions.m
  IN  [cl EXCEPT
         !.oneTimeOptions = MkMap(Put(cur, option, value)),
         !.reuseTransport = IF ~hasOption(option, transportOptions) THEN FALSE ELSE @,
         !.reuseJar = IF ~hasOption(option, jarOptions) THEN FALSE ELSE @]

withHeader(cl, option, value) ==
  LET cur == IF cl.oneTimeHeaders.nil THEN <<>> ELSE cl.oneTimeHeaders.m
  IN  [cl EXCEPT !.oneTimeHeaders = MkMap(Put(cur, option, value))]

withCookie(cl, cookies) ==
  [cl EXCEPT !.oneTimeCookies = @ \o cookies]

defaultsDropCaches(cl, options, headers) ==
  [cl EXCEPT
     !.Options = IF cl.Options.nil THEN options
                 ELSE MkMap(overlay(cl.Options.m, options.m)),
     !.Headers = IF cl.Headers.nil THEN headers
                 ELSE MkMap(overlay(cl.Headers.m, headers.m)),
     !.transport = NilTransport,
     !.jar = NoJar]

defaults(cl, options, headers) ==
  [cl EXCEPT
     !.Options = IF cl.Options.nil THEN options
                 ELSE MkMap(overlay(cl.Options.m, options.m)),
     !.Headers = IF cl.Headers.nil THEN headers
                 ELSE MkMap(overlay(cl.Headers.m, headers.m))]

(***************************************************************************)
(* Defaults and the maps of its callers.  A Go map is a reference: when    *)
(* the field is nil Defaults stores the argument itself, and from then on  *)
(* the field and the caller's variable name one map, into which every      *)
(* later call writes.  A map that was only ranged over stays as it was.    *)
(* A nil argument is no map.                                               *)
(***************************************************************************)
ArgMap(arg, stored) == [passed |-> arg.m, now |-> arg.m, stored |-> stored]

mergeArg(field, maps, arg) ==
  IF field.nil
  THEN IF arg.nil THEN maps ELSE maps \cup { ArgMap(arg, TRUE) }
  ELSE { IF a.stored THEN [a EXCEPT !.now = overlay(@, arg.m)] ELSE a : a \in maps }
         \cup (IF arg.nil THEN {} ELSE { ArgMap(arg, FALSE) })

defaultsArgs(cl, maps, options, headers) ==
  [Options |-> mergeArg(cl.Options, maps.Options, options),
   Headers |-> mergeArg(cl.Headers, maps.Headers, headers)]

(***************************************************************************)
(* Inputs of the workload.                                                 *)
(***************************************************************************)
Callers == {"c1", "c2"}

UserJar == -1       \* a jar instance the caller built and passes as an option

GoodURL == << "http://x/y" >>
QueryURL == << "http://x/y", "?", "b=2" >>

AllOptionInputs ==
  { << OPT_PROXY, StrV("p1") >>,
    << OPT_TIMEOUT_MS, StrV("soon") >>,
    << OPT_COOKIEJAR, JarV(UserJar) >>,
    << OPT_COOKIEJAR, IntV(1) >>,
    << OPT_REFERER, IntV(1) >>,
    << OPT_FOLLOWLOCATION, IntV(1) >> }

HeaderInputs == { << "X-A", "1" >> }

CookieInputs == { "sid" }

AllDefaultsInputs ==
  { << MkMap((OPT_COOKIEJAR :> BoolV(FALSE)) @@ (OPT_TIMEOUT_MS :> IntV(5000))),
       MkMap("X-A" :> "0") >>,
    << MkMap(OPT_TIMEOUT_MS :> IntV(3000)), NilMap >> }

\* Timeouts in both units, redirect limits around the chains served.
BuilderOptionInputs ==
  { << OPT_CONNECTTIMEOUT_MS, IntV(8000) >>,
    << OPT_CONNECTTIMEOUT_MS, IntV(0) >>,
    << OPT_CONNECTTIMEOUT, IntV(3) >>,
    << OPT_TIMEOUT_MS, IntV(5000) >>,
    << OPT_TIMEOUT_MS, IntV(0) >>,
    << OPT_TIMEOUT, IntV(9) >>,
    << OPT_MAXREDIRS, IntV(0) >>,
    << OPT_MAXREDIRS, IntV(1) >>,
    << OPT_MAXREDIRS, IntV(2) >>,
    << OPT_FOLLOWLOCATION, BoolV(FALSE) >> }

AllDoInputs ==
  { << GoodURL, NilMap >>, << GoodURL, MkMap("X-A" :> "2") >>, << BadURL, NilMap >> }

(***************************************************************************)
(* State.                                                                  *)
(*   workload  "sequential": one goroutine uses the client, with the full  *)
(*             input sets; "concurrent": two goroutines, with one input    *)
(*             of each sort; "builders": one goroutine, with the inputs    *)
(*             the timeout and redirect builders tell apart, and a server  *)
(*             that redirects; "fair": two goroutines that start every     *)
(*             sequence with Begin and end it with a request method        *)
(*   kind      "new" for a Client of NewClient, "default" for the          *)
(*             process-wide client of init()                               *)
(*   client    the Client struct                                           *)
(*   mutex     the sync.Mutex objects made so far, named by their maker    *)
(*   jarStore  the cookies each jar instance holds                         *)
(*   nextId    the identity of the next transport or jar instance built    *)
(*   pc, local each caller's position and the local variables of its Do,   *)
(*             with the caches as they were when the Do started            *)
(*   held      the mutex a caller locked in Begin and nobody unlocked yet  *)
(*   begun     whether the caller's current sequence started with Begin    *)
(*   bare      some With* or request method was called outside a sequence  *)
(*             that Begin started                                          *)
(*   nwith     With* calls of the caller since its last request method     *)
(*   left      calls of public methods the caller may still make           *)
(*   last      the outcome of the last request method that returned        *)
(*   crashed   the runtime's fatal "unlock of unlocked mutex" happened     *)
(*   argMaps   the maps callers handed to Defaults, per parameter: what    *)
(*             the map held when it was passed, what it holds now, and     *)
(*             whether the client's field refers to this very map          *)
(***************************************************************************)
VARIABLES workload, kind, client, mutex, jarStore, nextId, pc, local, held, begun,
          bare, nwith, left, last, crashed, argMaps

vars == << workload, kind, client, mutex, jarStore, nextId, pc, local, held, begun,
           bare, nwith, left, last, crashed, argMaps >>

NoLocal ==
  [method |-> "", url |-> <<>>, headers |-> <<>>, options |-> <<>>,
   cookies |-> <<>>, oneTime |-> NilMap, withs |-> 0, begun |-> FALSE,
   transport |-> NilTransport, jar |-> NoJar, resets |-> 0, unlocks |-> 0,
   hadTransport |-> 0, hadJar |-> NoJar]

NoResult ==
  [kind |-> "none", caller |-> "", err |-> "", issued |-> FALSE,
   begun |-> FALSE, given |-> {}, cookies |-> {},
   transportOption |-> FALSE, transport |-> 0, jar |-> NoJar,
   resets |-> 0, unlocks |-> 0, served |-> 0, hops |-> 0]

TransportOptionSet(oneTime) ==
  \E k \in DOMAIN oneTime.m : InList(k, transportOptions)

Sequential == workload = "sequential"

Builders == workload = "builders"

OptionInputs ==
  IF Sequential THEN AllOptionInputs
  ELSE IF Builders THEN BuilderOptionInputs
  ELSE { << OPT_PROXY, StrV("p1") >> }

DefaultsInputs ==
  IF Sequential THEN AllDefaultsInputs
  ELSE IF Builders THEN { << MkMap(OPT_CONNECTTIMEOUT :> IntV(4)), NilMap >> }
  ELSE { << MkMap(OPT_TIMEOUT_MS :> IntV(3000)), NilMap >> }

\* The redirects the server issues in answer to one request.
Served == IF Builders THEN 0 .. MaxServed ELSE {0}

DoInputs == IF Sequential THEN AllDoInputs ELSE { << GoodURL, NilMap >> }

GetInputs ==
  IF Sequential
  THEN { << GoodURL, NilParams >>, << GoodURL, PlainParams >>,
         << QueryURL, NilParams >>, << QueryURL, PlainParams >> }
  ELSE { << GoodURL, NilParams >> }

\* The parameters of a POST, and whether the file they name can be opened.
PostInputs ==
  IF Sequential
  THEN { << PlainParams, TRUE >>, << FileParams, TRUE >>, << FileParams, FALSE >> }
  ELSE { << PlainParams, TRUE >>, << FileParams, FALSE >> }

Range(seq) == { seq[i] : i \in 1..Len(seq) }

InitCommon ==
  /\ kind \in {"new", "default"}
  /\ client = IF kind = "new" THEN NewClient ELSE zeroClient
  /\ mutex = [m \in Callers |-> "absent"]
  /\ jarStore = (UserJar :> {})
  /\ nextId = 1
  /\ pc = [c \in Callers |-> "ready"]
  /\ local = [c \in Callers |-> NoLocal]
  /\ held = [c \in Callers |-> NoLock]
  /\ begun = [c \in Callers |-> FALSE]
  /\ bare = FALSE
  /\ nwith = [c \in Callers |-> 0]
  /\ last = NoResult
  /\ crashed = FALSE
  /\ argMaps = [Options |-> {}, Headers |-> {}]

\* One goroutine uses the client.
Init ==
  /\ workload = "sequential"
  /\ InitCommon
  /\ left = [c \in Callers |-> IF c = "c1" THEN MaxCalls ELSE 0]

CanCall(c) == pc[c] = "ready" /\ left[c] > 0 /\ ~crashed

\* The discipline of the fair workload: a sequence starts with Begin, and a
\* caller inside one keeps a call for the request method that ends it.
Fair == workload = "fair"
CanBegin(c) == CanCall(c) /\ ~begun[c] /\ (Fair => left[c] > 1)
CanDefault(c) == CanCall(c) /\ (Fair /\ begun[c] => left[c] > 1)
CanConfigure(c) == CanCall(c) /\ (Fair => begun[c] /\ left[c] > 1)
CanRequest(c) == CanCall(c) /\ (Fair => begun[c])

(***************************************************************************)
(* Defaults, WithOption, WithHeader, WithCookie.                           *)
(***************************************************************************)
\* One call, with maps the caller has just made.
DefaultsCall(c, options, headers) ==
  /\ CanDefault(c)
  /\ client' = defaults(client, options, headers)
  /\ argMaps' = defaultsArgs(client, argMaps, options, headers)
  /\ left' = [left EXCEPT ![c] = @ - 1]
  /\ UNCHANGED << workload, kind, bare, mutex, jarStore, nextId, pc, local, held, begun,
                  nwith, last, crashed >>

Defaults(c) == \E in \in DefaultsInputs : DefaultsCall(c, in[1], in[2])

WithOption(c) ==
  /\ CanConfigure(c)
  /\ \E in \in OptionInputs : client' = withOption(client, in[1], in[2])
  /\ nwith' = [nwith EXCEPT ![c] = @ + 1]
  /\ left' = [left EXCEPT ![c] = @ - 1]
  /\ bare' = (bare \/ ~begun[c])
  /\ UNCHANGED << workload, kind, argMaps, mutex, jarStore, nextId, pc, local, held, begun,
                  last, crashed >>

WithHeader(c) ==
  /\ CanConfigure(c)
  /\ \E in \in HeaderInputs : client' = withHeader(client, in[1], in[2])
  /\ nwith' = [nwith EXCEPT ![c] = @ + 1]
  /\ left' = [left EXCEPT ![c] = @ - 1]
  /\ bare' = (bare \/ ~begun[c])
  /\ UNCHANGED << workload, kind, argMaps, mutex, jarStore, nextId, pc, local, held, begun,
                  last, crashed >>

WithCookie(c) ==
  /\ CanConfigure(c)
  /\ \E ck \in CookieInputs : client' = withCookie(client, << ck >>)
  /\ nwith' = [nwith EXCEPT ![c] = @ + 1]
  /\ left' = [left EXCEPT ![c] = @ - 1]
  /\ bare' = (bare \/ ~begun[c])
  /\ UNCHANGED << workload, kind, argMaps, mutex, jarStore, nextId, pc, local, held, begun,
                  last, crashed >>

(***************************************************************************)
(* Begin, at its three accesses to client.lock: the nil test, the store    *)
(* of a new mutex, and Lock() on the mutex the field then holds.  A caller *)
(* does not call Begin twice in one sequence.                              *)
(***************************************************************************)
BeginCheck(c) ==
  /\ CanBegin(c)
  /\ left' = [left EXCEPT ![c] = @ - 1]
  /\ pc' = [pc EXCEPT ![c] = IF client.lock = NoLock THEN "begin_new" ELSE "begin_lock"]
  /\ UNCHANGED << workload, kind, argMaps, bare, client, mutex, jarStore, nextId, local, held, begun,
                  nwith, last, crashed >>

BeginNew(c) ==
  /\ pc[c] = "begin_new"
  /\ ~crashed
  /\ client' = [client EXCEPT !.lock = c]
  /\ mutex' = [mutex EXCEPT ![c] = "unlocked"]
  /\ pc' = [pc EXCEPT ![c] = "begin_lock"]
  /\ UNCHANGED << workload, kind, argMaps, bare, jarStore, nextId, local, held, begun, nwith, left,
                  last, crashed >>

BeginLock(c) ==
  /\ pc[c] = "begin_lock"
  /\ ~crashed
  /\ mutex[client.lock] = "unlocked"
  /\ mutex' = [mutex EXCEPT ![client.lock] = "locked"]
  /\ held' = [held EXCEPT ![c] = client.lock]
  /\ begun' = [begun EXCEPT ![c] = TRUE]
  /\ pc' = [pc EXCEPT ![c] = "ready"]
  /\ UNCHANGED << workload, kind, argMaps, bare, client, jarStore, nextId, local, nwith, left, last,
                  crashed >>

(***************************************************************************)
(* What a request method hands back, with the bookkeeping of its call.     *)
(***************************************************************************)
Result(c, l, err, issued, cookies) ==
  [kind |-> "do", caller |-> c, err |-> err, issued |-> issued,
   begun |-> l.begun, given |-> Range(l.cookies), cookies |-> cookies,
   transportOption |-> TransportOptionSet(l.oneTime),
   transport |-> l.transport.id, jar |-> l.jar,
   resets |-> l.resets, unlocks |-> l.unlocks, served |-> 0, hops |-> 0]

Return(c, r) ==
  /\ last' = r
  /\ pc' = [pc EXCEPT ![c] = "ready"]
  /\ local' = [local EXCEPT ![c] = NoLocal]
  /\ nwith' = [nwith EXCEPT ![c] = 0]
  /\ begun' = [begun EXCEPT ![c] = FALSE]

(***************************************************************************)
(* reset(): the one-time fields and the flags, then Unlock() when the      *)
(* lock field is not nil.  Unlocking a mutex that is not locked is the     *)
(* runtime's fatal error: the process dies inside reset.                   *)
(***************************************************************************)
UnlockCrashes == client.lock # NoLock /\ mutex[client.lock] # "locked"

UnlockNothing == UNCHANGED << mutex, held >>

Unlock ==
  IF client.lock = NoLock
  THEN UNCHANGED << mutex, held >>
  ELSE /\ mutex' = [mutex EXCEPT ![client.lock] = "unlocked"]
       /\ held' = [x \in Callers |-> IF held[x] = client.lock THEN NoLock ELSE held[x]]

AfterReset(l) ==
  [l EXCEPT !.resets = @ + 1,
            !.unlocks = @ + (IF client.lock # NoLock THEN 1 ELSE 0)]

Crash ==
  /\ crashed' = TRUE
  /\ client' = reset(client)
  /\ UNCHANGED << workload, kind, argMaps, bare, mutex, jarStore, nextId, pc, local, held, begun,
                  nwith, left, last >>

ResetAndReturn(c, err) ==
  IF UnlockCrashes THEN Crash
  ELSE /\ client' = reset(client)
       /\ Unlock
       /\ Return(c, Result(c, AfterReset(local[c]), err, FALSE, {}))
       /\ UNCHANGED << workload, kind, argMaps, bare, jarStore, nextId, left, crashed >>

(***************************************************************************)
(* Do.  DoEntry is its head: the three-layer merge of options and headers  *)
(* and the copy of the one-time cookies.  The request methods differ only  *)
(* in what they pass to it.                                                *)
(***************************************************************************)
DoEntry(c, method, url, headers) ==
  /\ local' = [local EXCEPT ![c] =
       [NoLocal EXCEPT
          !.method = method, !.url = url,
          !.options = mergeOptions(<< defaultOptions, client.Options,
                                      client.oneTimeOptions >>),
          !.cookies = client.oneTimeCookies,
          !.headers = mergeHeaders(<< client.Headers, client.oneTimeHeaders,
                                      headers >>),
          !.oneTime = client.oneTimeOptions,
          !.withs = nwith[c], !.begun = begun[c],
          !.hadTransport = client.transport.id, !.hadJar = client.jar]]
  /\ pc' = [pc EXCEPT ![c] = "do_transport"]
  /\ left' = [left EXCEPT ![c] = @ - 1]
  /\ bare' = (bare \/ ~begun[c])
  /\ UNCHANGED << workload, kind, argMaps, client, mutex, jarStore, nextId, held, begun, nwith,
                  last, crashed >>

Do(c) ==
  /\ CanRequest(c)
  /\ \E in \in DoInputs : DoEntry(c, "GET", in[1], in[2])

Get(c) ==
  /\ CanRequest(c)
  /\ \E in \in GetInputs : DoEntry(c, "GET", addQuery(in[1], in[2]), NilMap)

\* PostMultipart gives up at the first file it cannot open, without calling Do.
Abort(c) ==
  /\ last' = [NoResult EXCEPT !.kind = "abort", !.caller = c, !.err = "file",
                              !.begun = begun[c]]
  /\ nwith' = [nwith EXCEPT ![c] = 0]
  /\ begun' = [begun EXCEPT ![c] = FALSE]
  /\ left' = [left EXCEPT ![c] = @ - 1]
  /\ bare' = (bare \/ ~begun[c])
  /\ UNCHANGED << workload, kind, argMaps, client, mutex, jarStore, nextId, pc, local, held,
                  crashed >>

postMultipart(c, url, params, canOpen) ==
  IF checkParamFile(params) /\ ~canOpen
  THEN Abort(c)
  ELSE DoEntry(c, "POST", url, MkMap("Content-Type" :> "multipart/form-data"))

PostMultipart(c) ==
  /\ CanRequest(c)
  /\ \E in \in PostInputs : postMultipart(c, GoodURL, in[1], in[2])

Post(c) ==
  /\ CanRequest(c)
  /\ \E in \in PostInputs :
        IF checkParamFile(in[1])
        THEN postMultipart(c, GoodURL, in[1], in[2])
        ELSE DoEntry(c, "POST", GoodURL,
                     MkMap("Content-Type" :> "application/x-www-form-urlencoded"))

DoTransport(c) ==
  /\ pc[c] = "do_transport"
  /\ ~crashed
  /\ LET build == client.transport.id = 0 \/ ~client.reuseTransport
         r == prepareTransport(local[c].options)
         t == MkTransport(nextId, r)
     IN  IF build /\ r.err # ""
         THEN ResetAndReturn(c, "transport")
         ELSE /\ IF build
                 THEN /\ client' = IF client.reuseTransport
                                   THEN [client EXCEPT !.transport = t]
                                   ELSE client
                      /\ nextId' = nextId + 1
                      /\ local' = [local EXCEPT ![c].transport = t]
                 ELSE /\ local' = [local EXCEPT ![c].transport = client.transport]
                      /\ UNCHANGED << client, nextId >>
              /\ pc' = [pc EXCEPT ![c] = "do_jar"]
              /\ UNCHANGED << workload, kind, argMaps, bare, mutex, jarStore, held, begun, nwith,
                              left, last, crashed >>

DoJar(c) ==
  /\ pc[c] = "do_jar"
  /\ ~crashed
  /\ LET build == client.jar = NoJar \/ ~client.reuseJar
         r == prepareJar(local[c].options)
         j == IF r.kind = "new" THEN nextId
              ELSE IF r.kind = "given" THEN r.given ELSE NoJar
     IN  IF build /\ r.err # ""
         THEN ResetAndReturn(c, "jar")
         ELSE /\ IF build
                 THEN /\ client' = IF client.reuseJar
                                   THEN [client EXCEPT !.jar = j]
                                   ELSE client
                      /\ nextId' = IF r.kind = "new" THEN nextId + 1 ELSE nextId
                      /\ jarStore' = IF r.kind = "new"
                                     THEN (nextId :> {}) @@ jarStore
                                     ELSE jarStore
                      /\ local' = [local EXCEPT ![c].jar = j]
                 ELSE /\ local' = [local EXCEPT ![c].jar = client.jar]
                      /\ UNCHANGED << client, nextId, jarStore >>
              /\ pc' = [pc EXCEPT ![c] = "do_reset"]
              /\ UNCHANGED << workload, kind, argMaps, bare, mutex, held, begun, nwith, left, last,
                              crashed >>

\* "release lock": the reset of the path on which both builders succeeded.
DoReset(c) ==
  /\ pc[c] = "do_reset"
  /\ ~crashed
  /\ IF UnlockCrashes THEN Crash
     ELSE /\ client' = reset(client)
          /\ Unlock
          /\ local' = [local EXCEPT ![c] = AfterReset(local[c])]
          /\ pc' = [pc EXCEPT ![c] = "do_send"]
          /\ UNCHANGED << workload, kind, argMaps, bare, jarStore, nextId, begun, nwith, left, last,
                          crashed >>

(***************************************************************************)
(* The tail of Do, on its locals only: redirect policy, request, cookies   *)
(* (into the jar when there is one, else onto the request) and the         *)
(* network call.  http.Client adds the jar's cookies for the URL to the    *)
(* request it sends and follows the server's redirects as far as the       *)
(* policy allows; the network call ends well, with the policy's error or   *)
(* with a network error.                                                   *)
(***************************************************************************)
DoSend(c) ==
  /\ pc[c] = "do_send"
  /\ ~crashed
  /\ LET l == local[c]
         redirect == prepareRedirect(l.options)
         req == prepareRequest(l.method, l.url, l.headers, l.options)
     IN  IF redirect.err # ""
         THEN /\ Return(c, Result(c, l, "redirect", FALSE, {}))
              /\ UNCHANGED jarStore
         ELSE IF req.err # ""
         THEN /\ Return(c, Result(c, l, "request", FALSE, {}))
              /\ UNCHANGED jarStore
         ELSE /\ jarStore' = IF l.jar # NoJar
                             THEN [jarStore EXCEPT ![l.jar] = @ \cup Range(l.cookies)]
                             ELSE jarStore
              /\ \E netOK \in BOOLEAN, served \in Served :
                   LET chain == followRedirects(redirect, served, 1)
                       r == Result(c, l,
                                   IF ~netOK THEN "network"
                                   ELSE IF chain.err # "" THEN "redirect_policy"
                                   ELSE "",
                                   TRUE,
                                   IF l.jar # NoJar THEN jarStore'[l.jar]
                                   ELSE Range(l.cookies))
                   IN  Return(c, IF netOK
                                 THEN [r EXCEPT !.served = served, !.hops = chain.hops]
                                 ELSE r)
  /\ UNCHANGED << workload, kind, argMaps, bare, client, mutex, nextId, held, left, crashed >>

Step(c) ==
  \/ Defaults(c)
  \/ WithOption(c)
  \/ WithHeader(c)
  \/ WithCookie(c)
  \/ BeginCheck(c)
  \/ BeginNew(c)
  \/ BeginLock(c)
  \/ Do(c)
  \/ Get(c)
  \/ Post(c)
  \/ PostMultipart(c)
  \/ DoTransport(c)
  \/ DoJar(c)
  \/ DoReset(c)
  \/ DoSend(c)

Next == \E c \in Callers : Step(c)

Spec == Init /\ [][Next]_vars

\* Two goroutines use the same client.
ConcInit ==
  /\ workload = "concurrent"
  /\ InitCommon
  /\ left = [c \in Callers |-> MaxConcCalls]

ConcSpec == ConcInit /\ [][Next]_vars

\* Two goroutines that keep to Begin ... request method, fairly scheduled.
FairInit ==
  /\ workload = "fair"
  /\ InitCommon
  /\ left = [c \in Callers |-> MaxFairCalls]

FairSpec == FairInit /\ [][Next]_vars /\ \A c \in Callers : WF_vars(Step(c))

\* One goroutine exercises the timeout and redirect builders.
BuilderInit ==
  /\ workload = "builders"
  /\ InitCommon
  /\ left = [c \in Callers |-> IF c = "c1" THEN MaxCalls ELSE 0]

BuilderSpec == BuilderInit /\ [][Next]_vars

(***************************************************************************)
(* Vocabulary of the properties.                                           *)
(***************************************************************************)
DoPcs == {"do_transport", "do_jar", "do_reset", "do_send"}

\* A step in which c's Do hands its result back.
DoReturns(c) == pc[c] \in DoPcs /\ pc'[c] = "ready"

\* No one-time state.
Idle(cl) ==
  /\ cl.oneTimeOptions.nil
  /\ cl.oneTimeHeaders.nil
  /\ cl.oneTimeCookies = <<>>

\* c is between the return of its Begin and the reset of its Do.
InSequence(c) ==
  begun[c] /\ pc[c] \in {"ready", "do_transport", "do_jar", "do_reset"}

TransportConfig(t) ==
  [connectTimeoutMS |-> t.connectTimeoutMS, timeoutMS |-> t.timeoutMS,
   proxy |-> t.proxy]

JarOptionSet(oneTime) == \E k \in DOMAIN oneTime.m : InList(k, jarOptions)

\* The jar c's step took is the one prepareJar makes of c's resolved options.
JarBuilt(c) ==
  LET r == prepareJar(local[c].options)
  IN  IF r.kind = "given" THEN local'[c].jar = r.given
      ELSE IF r.kind = "nil" THEN local'[c].jar = NoJar
      ELSE local'[c].jar \notin DOMAIN jarStore /\ local'[c].jar \in DOMAIN jarStore'

\* The dynamic types each option key admits.
AllowedTypes(k) ==
  IF k \in {OPT_CONNECTTIMEOUT, OPT_CONNECTTIMEOUT_MS, OPT_TIMEOUT, OPT_TIMEOUT_MS,
            OPT_PROXYTYPE, OPT_MAXREDIRS} THEN {"int"}
  ELSE IF k \in {OPT_PROXY, OPT_REFERER, OPT_USERAGENT} THEN {"string"}
  ELSE IF k = OPT_PROXY_FUNC THEN {"proxyfunc"}
  ELSE IF k = OPT_COOKIEJAR THEN {"bool", "jar"}
  ELSE IF k = OPT_FOLLOWLOCATION THEN {"bool"}
  ELSE IF k = OPT_REDIRECT_POLICY THEN {"redirectfunc"}
  ELSE {"int", "bool", "string", "jar", "proxyfunc", "redirectfunc"}

WrongTyped(o) == \E k \in DOMAIN o : o[k].t \notin AllowedTypes(k)

(***************************************************************************)
(* C1.  When every sequence starts with Begin, at most one caller at a     *)
(* time is between the return of its Begin and the reset of its Do.        *)
(* Checked under ConcSpec.                                                 *)
(***************************************************************************)
C1_Serialized ==
  ~bare => \A a, b \in Callers : InSequence(a) /\ InSequence(b) => a = b

(***************************************************************************)
(* C2.  Every Do that returns has reset the client exactly once: at the    *)
(* return the one-time options, headers and cookies are empty, both reuse  *)
(* flags are true, and the lock of the preceding Begin was released once.  *)
(***************************************************************************)
C2_DoResetsOnce ==
  [][\A c \in Callers :
       DoReturns(c) =>
         /\ Idle(client')
         /\ client'.reuseTransport /\ client'.reuseJar
         /\ last'.resets = 1
         /\ local[c].begun =>
              /\ last'.unlocks = 1
              /\ mutex'[client'.lock] = "unlocked"
              /\ held'[c] = NoLock]_vars

\* A Do of a sequence that Begin started has failed in jar construction.
C2_Witness ==
  /\ last.kind = "do" /\ last.err = "jar" /\ last.begun
  /\ last.resets = 1 /\ last.unlocks = 1
  /\ Idle(client)

(***************************************************************************)
(* C3.  A PostMultipart that gives up on a file it cannot open leaves the  *)
(* client reset: no one-time state, and the lock of the caller's Begin     *)
(* released.                                                               *)
(***************************************************************************)
C3_AbortResets ==
  \A c \in Callers :
    (/\ last.kind = "abort" /\ last.caller = c
     /\ pc[c] = "ready" /\ nwith[c] = 0 /\ ~begun[c])
    => Idle(client) /\ held[c] = NoLock

(***************************************************************************)
(* C4.  A Do with no With* call of its own, made after a completed Do,     *)
(* resolves the options, and uses the transport and the jar, that the      *)
(* defaults alone produce.  Stated for a client whose Defaults was never   *)
(* called, where the defaults are the library defaults.                    *)
(***************************************************************************)
C4_OnlyDefaultsApply ==
  \A c \in Callers :
    (/\ pc[c] = "do_reset" /\ local[c].withs = 0
     /\ last.kind = "do" /\ client.Options.nil)
    => LET o == defaultOptions.m
           t == prepareTransport(o)
       IN  /\ local[c].options = o
           /\ TransportConfig(local[c].transport) = TransportConfig(t)
           /\ local[c].jar \notin {NoJar, UserJar}

(***************************************************************************)
(* C5.  A request carries no cookie but those WithCookie gave for it.      *)
(***************************************************************************)
C5_CookiesOneRequest == last.issued => last.cookies \subseteq last.given

(***************************************************************************)
(* C6.  Of two consecutive successful Do calls without a one-time          *)
(* transport option, the second uses the transport instance of the first.  *)
(***************************************************************************)
C6_TransportReused ==
  [][\A c \in Callers :
       (/\ DoReturns(c) /\ last'.err = "" /\ ~last'.transportOption
        /\ last.kind = "do" /\ last.err = "" /\ ~last.transportOption)
       => last'.transport = last.transport]_vars

(***************************************************************************)
(* C7.  A Do whose one-time options hold a transport option builds a new   *)
(* transport from its resolved options, does not use the cached one and    *)
(* leaves the cache as it was.                                             *)
(***************************************************************************)
C7_OneTimeTransport ==
  [][\A c \in Callers :
       (/\ pc[c] = "do_transport" /\ pc'[c] = "do_jar"
        /\ TransportOptionSet(local[c].oneTime))
       => /\ local'[c].transport.id # client.transport.id
          /\ TransportConfig(local'[c].transport)
               = TransportConfig(prepareTransport(local[c].options))
          /\ client'.transport = client.transport]_vars

(***************************************************************************)
(* C8.  A Do whose one-time options hold OPT_COOKIEJAR builds its jar      *)
(* from them and leaves the cached jar alone; any other Do uses the        *)
(* cached jar when there is one, and else builds a jar and caches it.      *)
(***************************************************************************)
C8_JarReuse ==
  [][\A c \in Callers :
       (pc[c] = "do_jar" /\ pc'[c] = "do_reset")
       => IF JarOptionSet(local[c].oneTime)
          THEN JarBuilt(c) /\ client'.jar = client.jar
          ELSE IF client.jar # NoJar
          THEN local'[c].jar = client.jar /\ client'.jar = client.jar
          ELSE JarBuilt(c) /\ client'.jar = local'[c].jar]_vars

(***************************************************************************)
(* C9.  A Do whose resolved options hold a value of the wrong type for     *)
(* its key issues no request and returns an error raised before the        *)
(* network call.                                                           *)
(***************************************************************************)
C9_WrongTypeIsError ==
  [][\A c \in Callers :
       (DoReturns(c) /\ WrongTyped(local[c].options))
       => ~last'.issued /\ last'.err \notin {"", "network"}]_vars

(***************************************************************************)
(* C10.  The options Do resolves at its start are, key by key, the         *)
(* one-time value when there is one, else the client default, else the     *)
(* library default; a key no layer defines is absent; and the merge leaves *)
(* the client's two layers as they were.                                   *)
(***************************************************************************)
C10_RightBiased ==
  [][\A c \in Callers :
       (pc[c] # "do_transport" /\ pc'[c] = "do_transport") =>
         LET o == local'[c].options
             one == client.oneTimeOptions.m
             cli == client.Options.m
             lib == defaultOptions.m
         IN  /\ DOMAIN o \subseteq OptionKeys
             /\ \A k \in OptionKeys :
                  IF Has(one, k) THEN Has(o, k) /\ o[k] = one[k]
                  ELSE IF Has(cli, k) THEN Has(o, k) /\ o[k] = cli[k]
                  ELSE IF Has(lib, k) THEN Has(o, k) /\ o[k] = lib[k]
                  ELSE ~Has(o, k)
             /\ client'.oneTimeOptions = client.oneTimeOptions
             /\ client'.Options = client.Options]_vars

\* OPT_COOKIEJAR is defined in all three layers and the one-time value won.
C10_Witness ==
  \E c \in Callers :
    /\ pc[c] = "do_transport"
    /\ Has(client.oneTimeOptions.m, OPT_COOKIEJAR)
    /\ Has(client.Options.m, OPT_COOKIEJAR)
    /\ client.Options.m[OPT_COOKIEJAR] # client.oneTimeOptions.m[OPT_COOKIEJAR]
    /\ local[c].options[OPT_COOKIEJAR] = client.oneTimeOptions.m[OPT_COOKIEJAR]

(***************************************************************************)
(* C11.  With follow-location true and max-redirects N >= 1, a chain of    *)
(* more than N redirects ends with the policy's error after exactly N      *)
(* hops; with follow-location false or N <= 0, the first redirect is       *)
(* denied.  Checked under BuilderSpec.                                     *)
(***************************************************************************)
C11_RedirectLimit ==
  [][\A c \in Callers :
       (/\ DoReturns(c) /\ last'.issued /\ last'.err # "network"
        /\ ~Has(local[c].options, OPT_REDIRECT_POLICY))
       => LET o == local[c].options
              follow == Has(o, OPT_FOLLOWLOCATION) /\ o[OPT_FOLLOWLOCATION] = BoolV(TRUE)
              N == IF Has(o, OPT_MAXREDIRS) THEN o[OPT_MAXREDIRS].n ELSE 0
          IN  IF follow /\ N >= 1
              THEN last'.served > N
                     => last'.err = "redirect_policy" /\ last'.hops = N
              ELSE last'.served >= 1
                     => last'.err = "redirect_policy" /\ last'.hops = 0]_vars

(***************************************************************************)
(* C12.  The connect timeout of a transport that Do builds is the overall  *)
(* timeout when that is positive and the connect timeout is zero or        *)
(* larger, and the connect timeout otherwise, each taken from the          *)
(* millisecond key, else from the seconds key times 1000, else 0; so it    *)
(* never exceeds a positive overall timeout.  Checked under BuilderSpec.   *)
(***************************************************************************)
C12_ConnectClamp ==
  [][\A c \in Callers :
       (/\ pc[c] = "do_transport" /\ pc'[c] = "do_jar"
        /\ local'[c].transport.id = nextId)
       => LET o == local[c].options
              connectMs == IF Has(o, OPT_CONNECTTIMEOUT_MS) THEN o[OPT_CONNECTTIMEOUT_MS].n
                           ELSE IF Has(o, OPT_CONNECTTIMEOUT)
                           THEN o[OPT_CONNECTTIMEOUT].n * 1000 ELSE 0
              timeoutMs == IF Has(o, OPT_TIMEOUT_MS) THEN o[OPT_TIMEOUT_MS].n
                           ELSE IF Has(o, OPT_TIMEOUT)
                           THEN o[OPT_TIMEOUT].n * 1000 ELSE 0
              used == local'[c].transport.connectTimeoutMS
          IN  /\ used = IF timeoutMs > 0 /\ (connectMs = 0 \/ connectMs > timeoutMs)
                        THEN timeoutMs ELSE connectMs
              /\ timeoutMs > 0 => used <= timeoutMs]_vars

\* timeout 5000 ms and connect timeout 8000 ms: the transport dials with 5000.
C12_Witness ==
  \E c \in Callers :
    /\ pc[c] = "do_jar" /\ last.kind = "none"
    /\ Has(local[c].options, OPT_TIMEOUT_MS)
    /\ Has(local[c].options, OPT_CONNECTTIMEOUT_MS)
    /\ local[c].options[OPT_TIMEOUT_MS].n = 5000
    /\ local[c].options[OPT_CONNECTTIMEOUT_MS].n = 8000
    /\ local[c].transport.id # 0
    /\ local[c].transport.connectTimeoutMS = 5000

(***************************************************************************)
(* C13.  A client without one-time options, headers and cookies has both   *)
(* reuse flags true, the default client as one made by NewClient.          *)
(***************************************************************************)
C13_IdleFlags == Idle(client) => client.reuseTransport /\ client.reuseJar

(***************************************************************************)
(* C14.  On the fresh default client a GET without parameters keeps its    *)
(* URL and, with no Defaults and no With* call before it, reaches the      *)
(* network call: no builder reports an error, and the client is idle with  *)
(* both flags true when it returns.                                        *)
(***************************************************************************)
C14_DefaultClientUsable ==
  [][/\ \A in \in GetInputs : in[2] = NilParams => addQuery(in[1], in[2]) = in[1]
     /\ \A c \in Callers :
          (/\ DoReturns(c) /\ kind = "default" /\ last.kind = "none"
           /\ left[c] = MaxCalls - 1
           /\ local[c].method = "GET" /\ ~newRequestFails(local[c].url))
          => /\ last'.issued /\ last'.err \in {"", "network"}
             /\ Idle(client') /\ client'.reuseTransport /\ client'.reuseJar]_vars

\* The first call on the default client was a GET that got its response.
C14_Witness ==
  /\ kind = "default" /\ left["c1"] = MaxCalls - 1
  /\ last.kind = "do" /\ last.issued /\ last.err = ""
  /\ client.Options.nil /\ client.lock = NoLock
  /\ Idle(client)

(***************************************************************************)
(* C15.  When every sequence starts with Begin and ends with a request     *)
(* method, a caller waiting in Begin for the lock eventually gets it.      *)
(* Checked under FairSpec.                                                 *)
(***************************************************************************)
C15_LockLiveness ==
  \A c \in Callers : (pc[c] = "begin_lock") ~> begun[c]

(***************************************************************************)
(* C16.  Do has reset the client and unlocked its mutex when it goes on    *)
(* to the network call; while a request is in flight no step of another    *)
(* caller changes the options, headers, cookies, transport or jar it was   *)
(* given; and the request is issued with exactly those.  Checked under     *)
(* ConcSpec.                                                               *)
(***************************************************************************)
C16_ReleaseBeforeSend ==
  [][\A c \in Callers :
       /\ (pc[c] = "do_reset" /\ pc'[c] = "do_send")
          => /\ Idle(client')
             /\ local'[c].resets = 1
             /\ client.lock # NoLock
                  => local'[c].unlocks = 1 /\ mutex'[client.lock] = "unlocked"
       /\ (pc[c] = "do_send" /\ pc'[c] = "do_send") => local'[c] = local[c]
       /\ (pc[c] = "do_send" /\ pc'[c] = "ready" /\ last'.issued)
          => /\ last'.caller = c
             /\ last'.transport = local[c].transport.id
             /\ last'.jar = local[c].jar
             /\ last'.given = Range(local[c].cookies)
             /\ local[c].jar = NoJar => last'.cookies = Range(local[c].cookies)]_vars

\* While c's request is in flight, d has begun the next sequence and set a
\* one-time option that c's request does not have.
C16_Witness ==
  \E c, d \in Callers :
    /\ c # d
    /\ pc[c] = "do_send" /\ local[c].begun
    /\ begun[d] /\ nwith[d] > 0
    /\ Has(client.oneTimeOptions.m, OPT_PROXY)
    /\ ~Has(local[c].options, OPT_PROXY)

(***************************************************************************)
(* C17.  No reset unlocks a mutex that is not locked, and a lock taken in  *)
(* Begin is released only by a step of its holder's own Do.                *)
(***************************************************************************)
C17_UnlockOwnLock ==
  [][/\ ~crashed'
     /\ \A c \in Callers :
          (held[c] # NoLock /\ held'[c] = NoLock)
          => pc[c] \in DoPcs /\ pc'[c] # pc[c]]_vars

(***************************************************************************)
(* C18.  Once the client has a cached transport, or a cached jar, no call  *)
(* replaces or clears it, and a Do that may reuse gets that instance,      *)
(* whatever Defaults has changed since it was built.                       *)
(***************************************************************************)
C18_CachesWriteOnce ==
  [][/\ client.transport.id # 0 => client'.transport = client.transport
     /\ client.jar # NoJar => client'.jar = client.jar
     /\ \A c \in Callers :
          /\ (/\ pc[c] = "do_transport" /\ pc'[c] = "do_jar"
              /\ client.transport.id # 0 /\ client.reuseTransport)
             => local'[c].transport = client.transport
          /\ (/\ pc[c] = "do_jar" /\ pc'[c] = "do_reset"
              /\ client.jar # NoJar /\ client.reuseJar)
             => local'[c].jar = client.jar]_vars

\* A Do was given the cached transport although the timeout it resolved,
\* after a Defaults call, is not the one the transport was built with.
C18_Witness ==
  \E c \in Callers :
    /\ pc[c] = "do_jar"
    /\ local[c].transport.id # 0 /\ local[c].transport = client.transport
    /\ Has(client.Options.m, OPT_TIMEOUT_MS)
    /\ local[c].options[OPT_TIMEOUT_MS] = client.Options.m[OPT_TIMEOUT_MS]
    /\ local[c].options[OPT_TIMEOUT_MS].n # local[c].transport.timeoutMS

(***************************************************************************)
(* C19.  A Do that returns a configuration error leaves the cached         *)
(* transport and the cached jar as they were when it started.              *)
(***************************************************************************)
C19_FailedDoKeepsCaches ==
  [][\A c \in Callers :
       (DoReturns(c) /\ last'.err \in {"transport", "jar", "redirect"})
       => /\ client'.transport.id = local[c].hadTransport
          /\ client'.jar = local[c].hadJar]_vars

(***************************************************************************)
(* The jar a step of Do takes, by the resolved OPT_COOKIEJAR: a new jar    *)
(* for true, none for false or absent, the caller's instance for a jar;    *)
(* for any other value the client is reset, Do does not go on, and what    *)
(* it returns is the configuration error.  Without a jar the one-time      *)
(* cookies go onto the request.  `always` asks this of every Do, else      *)
(* only of one that builds its jar.                                        *)
(***************************************************************************)
JarByOption(c, always) ==
  LET o == local[c].options
      building == client.jar = NoJar \/ ~client.reuseJar
      set == Has(o, OPT_COOKIEJAR)
  IN  /\ (/\ pc[c] = "do_jar" /\ (always \/ building)
          /\ (pc'[c] # "do_jar" \/ crashed'))
         => IF ~set \/ o[OPT_COOKIEJAR] = BoolV(FALSE)
            THEN pc'[c] = "do_reset" /\ local'[c].jar = NoJar
            ELSE IF o[OPT_COOKIEJAR] = BoolV(TRUE)
            THEN /\ pc'[c] = "do_reset"
                 /\ local'[c].jar \notin DOMAIN jarStore
                 /\ local'[c].jar \in DOMAIN jarStore'
            ELSE IF o[OPT_COOKIEJAR].t = "jar"
            THEN pc'[c] = "do_reset" /\ local'[c].jar = o[OPT_COOKIEJAR].n
            ELSE /\ pc'[c] # "do_reset"
                 /\ Idle(client')
                 /\ pc'[c] = "ready" => last'.err = "jar" /\ ~last'.issued
      /\ (pc[c] = "do_send" /\ pc'[c] = "ready" /\ last'.issued /\ local[c].jar = NoJar)
         => last'.cookies = Range(local[c].cookies)

Lookup(map, k) == IF ~map.nil /\ k \in DOMAIN map.m THEN { map.m[k] } ELSE {}

\* After the call every key the argument defines has the argument's value,
\* and every other key is as it was.
MergedInto(before, after, arg) ==
  \A k \in (DOMAIN before.m) \cup (DOMAIN after.m) \cup (DOMAIN arg.m) :
     Lookup(after, k) = IF Lookup(arg, k) # {} THEN Lookup(arg, k)
                        ELSE Lookup(before, k)

\* The call leaves the one-time state, the reuse flags and the lock alone.
DefaultsFrame ==
  /\ client'.oneTimeOptions = client.oneTimeOptions
  /\ client'.oneTimeHeaders = client.oneTimeHeaders
  /\ client'.oneTimeCookies = client.oneTimeCookies
  /\ client'.reuseTransport = client.reuseTransport
  /\ client'.reuseJar = client.reuseJar
  /\ client'.lock = client.lock
  /\ mutex' = mutex
  /\ held' = held

\* Every map a caller ever passed holds what it held when it was passed.
ArgMapsIntact(maps) ==
  /\ \A a \in maps.Options : a.now = a.passed
  /\ \A a \in maps.Headers : a.now = a.passed

\* C21: a Defaults call leaves in the client defaults, for each key, the
\* value of the last call that defined it; it changes neither the one-time
\* state nor the reuse flags nor the lock; and after it every map a caller
\* passed to this or to an earlier Defaults call is as the caller made it.
C21_DefaultsMergeOnly ==
  [][\A c \in Callers : \A in \in DefaultsInputs :
       DefaultsCall(c, in[1], in[2]) =>
         /\ MergedInto(client.Options, client'.Options, in[1])
         /\ MergedInto(client.Headers, client'.Headers, in[2])
         /\ DefaultsFrame
         /\ ArgMapsIntact(argMaps')]_vars

\* The merge and the frame alone.
C21_MergeAndFrame ==
  [][\A c \in Callers : \A in \in DefaultsInputs :
       DefaultsCall(c, in[1], in[2]) =>
         /\ MergedInto(client.Options, client'.Options, in[1])
         /\ MergedInto(client.Headers, client'.Headers, in[2])
         /\ DefaultsFrame]_vars

====
